---- MODULE Spec2Model ----
(***************************************************************************)
(* A model of gym_energyplus/wrappers.py: the Episode Segmenter            *)
(* (EnergyPlusWrapper), the Control-Step Aggregator (RepeatAction) and the *)
(* Action Quantizer (EnergyPlusDiscreteActionWrapper).                     *)
(*                                                                         *)
(* Floating-point values are modelled by integers: an action component k   *)
(* stands for the float k.0, an observation is an integer sample, a mean   *)
(* is kept as the pair (sum, count) it is computed from.                   *)
(***************************************************************************)
EXTENDS Integers, Sequences, FiniteSets, TLC

\* ------------------------------------------------------------------ bounds
\* max_steps is drawn from 1..MaxM
MaxM == 2
\* calls made past the segment boundary before the model stops stepping
MaxOver == 1
\* observations returned by the inner simulation are 1..NObs
NObs == 2
\* the scripted simulation's period K is drawn from 1..MaxK
MaxK == 2
\* the Aggregator's window holds at most MaxWindow samples in the model
MaxWindow == 3
\* num_levels is drawn from 1..MaxLevels, the action dimension from 1..MaxDims
MaxLevels == 3
MaxDims == 2
\* raw power fields are multiples of 50 kW up to MaxPowerUnits of them
MaxPowerUnits == 2

\* ------------------------------------------------------- values and the env
\* self.last_obs = None
None == 0
\* the attribute self.current_steps does not exist before the first reset
NoAttr == -1
NoAction == <<>>

Obs == 1..NObs

\* the inner simulation's native action range, env.action_space.low / high
EnvActionLow == <<10, 0>>
EnvActionHigh == <<30, 4>>
Dims == Len(EnvActionLow)
\* the action components a caller tries: -2.0 and 2.0 lie outside [-1, 1]
ActionValues == {-2, -1, 0, 1, 2}
Actions == [1..Dims -> ActionValues]

VARIABLES
    \* EnergyPlusWrapper
    max_steps, true_done, last_obs, current_steps,
    \* the inner simulation as the Segmenter sees it: inner_never_done is TRUE
    \* when its step never reports done (and never raises); inner_obs is the
    \* observation it returned last, from step or reset
    inner_never_done, inner_obs,
    \* history: a reset has been called; in-bound step calls since the last
    \* reset; the done kind returned by the previous step if no reset followed;
    \* the observation returned by the most recent step that returned; the
    \* inner step reported done in a step taken after reset below max_steps,
    \* and no reset followed yet
    reset_seen, calls_since_reset, prev_done, last_step_obs, term_pending,
    \* the last call on the Segmenter with what it did and returned
    call

segVars == <<max_steps, true_done, last_obs, current_steps, inner_never_done,
             inner_obs, reset_seen, calls_since_reset, prev_done,
             last_step_obs, term_pending, call>>

VARIABLES
    \* RepeatAction: self.last_obs, self.obs, self.reward
    agg_last_obs, agg_obs, agg_reward,
    \* the step call in progress: "idle" between calls, "loop" once the first
    \* inner step has returned; its action and the locals obs, reward, done
    agg_pc, agg_action, cur,
    \* the inner simulation under the Aggregator: scripted (its first three
    \* fields change once every sim_K sub-steps, it never reports done and never
    \* raises) or free; sim_t counts the scripted sub-steps modulo 2 * sim_K
    sim_scripted, sim_K, sim_t,
    \* history: a reset has been called; the last call on the Aggregator
    agg_reset_seen, acall

aggVars == <<agg_last_obs, agg_obs, agg_reward, agg_pc, agg_action, cur,
             sim_scripted, sim_K, sim_t, agg_reset_seen, acall>>

VARIABLES
    \* EnergyPlusDiscreteActionWrapper: self.num_levels and
    \* self.env.action_space.shape[0]
    num_levels, q_dims,
    \* the last call of action(index) and the one before it
    qcall, qprev

quantVars == <<num_levels, q_dims, qcall, qprev>>

VARIABLES
    \* EnergyPlusObsWrapper: a raw observation, how far it went through
    \* observation / reverse_observation / observation, and the results
    o_raw, o_stage, o_norm, o_back, o_again,
    \* the last call of cost_fn: its arguments and those passed to env.cost_fn
    cost_call

obsVars == <<o_raw, o_stage, o_norm, o_back, o_again, cost_call>>

VARIABLES
    \* the stack Segmenter -> Aggregator -> simulation: whether the simulation
    \* reported done and was not reset since, whether it was ever stepped in
    \* that condition, and whether a Segmenter reset that left the inner
    \* layers alone was followed by a step ("no", "reset", "stepped")
    sim_done, stepped_after_done, synthetic

stackVars == <<sim_done, stepped_after_done, synthetic>>

VARIABLES
    \* kept beside the Segmenter under a disciplined caller: the number of
    \* inner steps that returned done=False since the last Segmenter reset, and
    \* whether the inner simulation was reset since construction or since it
    \* last reported done
    nonterm_steps, inner_fresh

callerVars == <<nonterm_steps, inner_fresh>>

vars == <<segVars, aggVars, quantVars, obsVars, stackVars, callerVars>>

\* ------------------------------------------------------ EnergyPlusWrapper
\* gym.spaces.Box(low=-1., high=1., shape=...).contains(action)
ActionSpaceContains_upper(a) ==
    /\ DOMAIN a = 1..Dims
    /\ \A i \in 1..Dims : a[i] <= 1

ActionSpaceContains(a) ==
    /\ DOMAIN a = 1..Dims
    /\ \A i \in 1..Dims : a[i] >= -1 /\ a[i] <= 1

\* low + (action + 1.) * 0.5 * (high - low): the native action of a normalized one
OriginalAction(a) ==
    [i \in 1..Dims |->
        EnvActionLow[i] + ((a[i] + 1) * (EnvActionHigh[i] - EnvActionLow[i])) \div 2]

InnerAction_denormalized(a) == OriginalAction(a)

\* self.env.step(action): the action the inner step is called with
InnerAction(a) == a

TrueDoneAfterStep_never(td, done) == td

\* if done: self.true_done = True
TrueDoneAfterStep(td, done) == IF done THEN TRUE ELSE td

SegmentDone_late(cs, M, done) == IF cs = M + 1 THEN TRUE ELSE done

\* the done flag of a step that did not truly terminate: True at max_steps,
\* the inner done below it
SegmentDone(cs, M, done) == IF cs = M THEN TRUE ELSE done

\* a step whose count is past max_steps raises ValueError
SegmentOutcome(cs, M) == IF cs <= M THEN "return" ELSE "ValueError"

ResetCallsInner_always(td) == TRUE

\* if self.true_done: self.last_obs = self.env.reset(**kwargs)
ResetCallsInner(td) == td

\* What step does with the tuple o = [obs, done] the inner step returned, from
\* the counter cs and the flag td: the new fields, the outcome and the
\* returned transition.
SegOnInnerReturn(cs, td, M, o) ==
    IF o.done
    THEN [current_steps |-> cs, true_done |-> TrueDoneAfterStep(td, o.done),
          last_obs |-> o.obs, outcome |-> "return",
          obs |-> o.obs, done |-> o.done, info_true_done |-> TRUE]
    ELSE IF cs = NoAttr
    THEN [current_steps |-> cs, true_done |-> TrueDoneAfterStep(td, o.done),
          last_obs |-> o.obs, outcome |-> "AttributeError",
          obs |-> None, done |-> FALSE, info_true_done |-> FALSE]
    ELSE [current_steps |-> cs + 1, true_done |-> TrueDoneAfterStep(td, o.done),
          last_obs |-> o.obs, outcome |-> SegmentOutcome(cs + 1, M),
          obs |-> IF SegmentOutcome(cs + 1, M) = "return" THEN o.obs ELSE None,
          done |-> IF SegmentOutcome(cs + 1, M) = "return"
                   THEN SegmentDone(cs + 1, M, o.done) ELSE FALSE,
          info_true_done |-> FALSE]

\* the state of the Segmenter before a call, kept in the call record
Pre == [true_done |-> true_done, last_obs |-> last_obs,
        current_steps |-> current_steps, prev_done |-> prev_done,
        reset_seen |-> reset_seen, term_pending |-> term_pending]

\* the tuples the inner step may return
InnerReturns ==
    { o \in [obs : Obs, done : BOOLEAN] : inner_never_done => ~o.done }

\* the model stops stepping MaxOver calls past the segment boundary
StepAllowed ==
    /\ calls_since_reset < max_steps + MaxOver
    /\ current_steps < max_steps + MaxOver

DoneKind(r) ==
    IF r.outcome # "return" \/ ~r.done THEN "none"
    ELSE IF r.info_true_done THEN "true" ELSE "synthetic"

SegInit ==
    /\ max_steps \in 1..MaxM
    /\ true_done = TRUE
    /\ last_obs = None
    /\ current_steps = NoAttr
    /\ inner_never_done \in BOOLEAN
    /\ inner_obs = None
    /\ reset_seen = FALSE
    /\ calls_since_reset = 0
    /\ prev_done = "none"
    /\ last_step_obs = None
    /\ term_pending = FALSE
    /\ call = [op |-> "init", outcome |-> "none", action |-> NoAction,
               inner_steps |-> 0, inner_resets |-> 0, inner_action |-> NoAction,
               inner_done |-> FALSE,
               obs |-> None, done |-> FALSE, info_true_done |-> FALSE,
               pre |-> [true_done |-> TRUE, last_obs |-> None,
                        current_steps |-> NoAttr, prev_done |-> "none",
                        reset_seen |-> FALSE, term_pending |-> FALSE]]

\* step(action) with an action outside the declared space: the assert fails
SegStepOutOfBound(a) ==
    /\ StepAllowed
    /\ ~ActionSpaceContains(a)
    /\ call' = [op |-> "step", outcome |-> "AssertionError", action |-> a,
                inner_steps |-> 0, inner_resets |-> 0, inner_action |-> NoAction,
                inner_done |-> FALSE,
                obs |-> None, done |-> FALSE, info_true_done |-> FALSE,
                pre |-> Pre]
    /\ UNCHANGED <<max_steps, true_done, last_obs, current_steps,
                   inner_never_done, inner_obs, reset_seen, calls_since_reset,
                   prev_done, last_step_obs, term_pending>>

\* step(action) whose inner step raises: the failure propagates
SegStepInnerRaises(a) ==
    /\ StepAllowed
    /\ ActionSpaceContains(a)
    /\ ~inner_never_done
    /\ call' = [op |-> "step", outcome |-> "InnerError", action |-> a,
                inner_steps |-> 1, inner_resets |-> 0,
                inner_action |-> InnerAction(a), inner_done |-> FALSE,
                obs |-> None, done |-> FALSE, info_true_done |-> FALSE,
                pre |-> Pre]
    /\ calls_since_reset' = calls_since_reset + 1
    /\ prev_done' = "none"
    /\ UNCHANGED <<max_steps, true_done, last_obs, current_steps,
                   inner_never_done, inner_obs, reset_seen, last_step_obs,
                   term_pending>>

\* step(action) whose inner step returns o
SegStep(a, o) ==
    /\ StepAllowed
    /\ ActionSpaceContains(a)
    /\ LET r == SegOnInnerReturn(current_steps, true_done, max_steps, o)
       IN /\ last_obs' = r.last_obs
          /\ true_done' = r.true_done
          /\ current_steps' = r.current_steps
          /\ call' = [op |-> "step", outcome |-> r.outcome, action |-> a,
                      inner_steps |-> 1, inner_resets |-> 0,
                      inner_action |-> InnerAction(a), inner_done |-> o.done,
                      obs |-> r.obs, done |-> r.done,
                      info_true_done |-> r.info_true_done, pre |-> Pre]
          /\ prev_done' = DoneKind(r)
          /\ last_step_obs' = IF r.outcome = "return" THEN r.obs ELSE last_step_obs
    /\ inner_obs' = o.obs
    /\ term_pending' = (term_pending \/
                        (o.done /\ reset_seen /\ current_steps < max_steps))
    /\ calls_since_reset' = calls_since_reset + 1
    /\ UNCHANGED <<max_steps, inner_never_done, reset_seen>>

\* reset(): the inner reset, when it is called, returns some observation
SegReset ==
    /\ \/ /\ ResetCallsInner(true_done)
          /\ \E o \in Obs : last_obs' = o /\ inner_obs' = o
          /\ true_done' = FALSE
       \/ /\ ~ResetCallsInner(true_done)
          /\ UNCHANGED <<last_obs, inner_obs, true_done>>
    /\ current_steps' = 0
    /\ call' = [op |-> "reset", outcome |-> "return", action |-> NoAction,
                inner_steps |-> 0,
                inner_resets |-> IF ResetCallsInner(true_done) THEN 1 ELSE 0,
                inner_action |-> NoAction, inner_done |-> FALSE,
                obs |-> last_obs', done |-> FALSE, info_true_done |-> FALSE,
                pre |-> Pre]
    /\ reset_seen' = TRUE
    /\ calls_since_reset' = 0
    /\ prev_done' = "none"
    /\ term_pending' = FALSE
    /\ UNCHANGED <<max_steps, inner_never_done, last_step_obs>>

\* ----------------------------------------------------------- RepeatAction
\* observation vectors of the inner simulation: three leading fields and one
\* more; two of them share the leading fields, one differs in the third only
SimObs == { <<0, 0, 0, 0>>, <<0, 0, 0, 1>>, <<0, 0, 1, 0>>, <<1, 1, 1, 0>> }
SimRewards == {0, 1}
NoObs == <<>>
AggActions == { <<-1, 1>>, <<0, 0>> }

RECURSIVE SumObs(_)
\* the pointwise sum of a sequence of observation vectors
SumObs(w) ==
    IF Len(w) = 1 THEN w[1]
    ELSE LET r == SumObs(Tail(w))
         IN [i \in DOMAIN r |-> w[1][i] + r[i]]

RECURSIVE SumRewards(_)
SumRewards(w) == IF w = <<>> THEN 0 ELSE w[1] + SumRewards(Tail(w))

\* np.mean(self.obs, axis=0), kept as the sums and the count
MeanObs(w) == [sum |-> SumObs(w), n |-> Len(w)]

\* np.mean(self.reward)
MeanReward(w) == [sum |-> SumRewards(w), n |-> Len(w)]

NoMean == [sum |-> <<>>, n |-> 0]
NoMeanReward == [sum |-> 0, n |-> 0]

SamePrefix_two(ob, last) == SubSeq(ob, 1, 2) = SubSeq(last, 1, 2)

\* np.array_equal(obs[:3], self.last_obs[:3])
SamePrefix(ob, last) == SubSeq(ob, 1, 3) = SubSeq(last, 1, 3)

\* the while condition
LoopContinues(ob, last, done) == SamePrefix(ob, last) /\ ~done

\* the leading fields of the scripted simulation in sub-step t of its script
ScriptPrefix(t, K) == LET i == (t \div K) % 2 IN <<i, i, i>>

\* what the inner step may return: [obs, reward, done]
SimReturns ==
    IF sim_scripted
    THEN { o \in [obs : SimObs, reward : SimRewards, done : {FALSE}] :
             SubSeq(o.obs, 1, 3) = ScriptPrefix((sim_t + 1) % (2 * sim_K), sim_K) }
    ELSE [obs : SimObs, reward : SimRewards, done : BOOLEAN]

\* what the inner reset may return
SimResets ==
    IF sim_scripted
    THEN { ob \in SimObs : SubSeq(ob, 1, 3) = ScriptPrefix(0, sim_K) }
    ELSE SimObs

SimAdvance == IF sim_scripted THEN (sim_t + 1) % (2 * sim_K) ELSE sim_t

\* info is identified by the ordinal, within the call, of the inner step that
\* returned it
\* the returns of a simulation that changes the leading fields or reports
\* done before the window of the model is full (the scripted one always does);
\* the reward, which the loop condition does not read, is left at 0
PatientReturns ==
    { o \in SimReturns :
        /\ o.reward = 0
        /\ \/ sim_scripted
           \/ Len(agg_obs) + 1 < MaxWindow
           \/ agg_last_obs = NoObs
           \/ ~LoopContinues(o.obs, agg_last_obs, o.done) }

NoCur == [obs |-> NoObs, reward |-> 0, done |-> FALSE, info |-> 0]

AggIdle ==
    /\ agg_last_obs = NoObs
    /\ agg_obs = <<>>
    /\ agg_reward = <<>>
    /\ agg_pc = "idle"
    /\ agg_action = NoAction
    /\ cur = NoCur
    /\ sim_t = 0
    /\ agg_reset_seen = FALSE
    /\ acall = [op |-> "init", outcome |-> "none", inner_steps |-> 0,
                inner_actions |-> {}, samples |-> <<>>, rewards |-> <<>>,
                obs |-> NoMean, reward |-> NoMeanReward, done |-> FALSE,
                reset_before |-> FALSE, stale |-> 0, dones |-> <<>>,
                info |-> 0, baseline |-> NoObs]

AggInit ==
    /\ AggIdle
    /\ sim_scripted \in BOOLEAN
    /\ sim_K \in (IF sim_scripted THEN 1..MaxK ELSE {1})

\* step(action), lines 33-35: the first inner step returns o
AggStepBegin(a, o) ==
    /\ agg_pc = "idle"
    /\ Len(agg_obs) < MaxWindow
    /\ agg_obs' = Append(agg_obs, o.obs)
    /\ agg_reward' = Append(agg_reward, o.reward)
    /\ cur' = [obs |-> o.obs, reward |-> o.reward, done |-> o.done, info |-> 1]
    /\ agg_action' = a
    /\ agg_pc' = "loop"
    /\ sim_t' = SimAdvance
    /\ acall' = [op |-> "step", outcome |-> "running", inner_steps |-> 1,
                 inner_actions |-> {a}, samples |-> <<o.obs>>,
                 rewards |-> <<o.reward>>,
                 obs |-> NoMean, reward |-> NoMeanReward, done |-> FALSE,
                 reset_before |-> agg_reset_seen, stale |-> Len(agg_obs),
                 dones |-> <<o.done>>, info |-> 0, baseline |-> agg_last_obs]
    /\ UNCHANGED <<agg_last_obs, sim_scripted, sim_K, agg_reset_seen>>

\* step(action) whose first inner step raises: the failure propagates
AggStepBeginRaises(a) ==
    /\ agg_pc = "idle"
    /\ ~sim_scripted
    /\ acall' = [op |-> "step", outcome |-> "InnerError", inner_steps |-> 1,
                 inner_actions |-> {a}, samples |-> <<>>, rewards |-> <<>>,
                 obs |-> NoMean, reward |-> NoMeanReward, done |-> FALSE,
                 reset_before |-> agg_reset_seen, stale |-> Len(agg_obs),
                 dones |-> <<>>, info |-> 0, baseline |-> agg_last_obs]
    /\ UNCHANGED <<agg_last_obs, agg_obs, agg_reward, agg_pc, agg_action, cur,
                   sim_scripted, sim_K, sim_t, agg_reset_seen>>

\* line 38 with self.last_obs = None: None[:3] raises TypeError
AggLoopTypeError ==
    /\ agg_pc = "loop"
    /\ agg_last_obs = NoObs
    /\ agg_pc' = "idle"
    /\ agg_action' = NoAction
    /\ cur' = NoCur
    /\ acall' = [acall EXCEPT !.outcome = "TypeError"]
    /\ UNCHANGED <<agg_last_obs, agg_obs, agg_reward, sim_scripted, sim_K,
                   sim_t, agg_reset_seen>>

\* lines 38-41: the condition holds and the inner step returns o
AggLoopIter(o) ==
    /\ agg_pc = "loop"
    /\ agg_last_obs # NoObs
    /\ LoopContinues(cur.obs, agg_last_obs, cur.done)
    /\ (sim_scripted \/ Len(agg_obs) < MaxWindow)
    /\ agg_obs' = Append(agg_obs, o.obs)
    /\ agg_reward' = Append(agg_reward, o.reward)
    /\ cur' = [obs |-> o.obs, reward |-> o.reward, done |-> o.done,
               info |-> acall.inner_steps + 1]
    /\ sim_t' = SimAdvance
    /\ acall' = [acall EXCEPT !.inner_steps = @ + 1,
                              !.inner_actions = @ \cup {agg_action},
                              !.samples = Append(@, o.obs),
                              !.rewards = Append(@, o.reward),
                              !.dones = Append(@, o.done)]
    /\ UNCHANGED <<agg_last_obs, agg_pc, agg_action, sim_scripted, sim_K,
                   agg_reset_seen>>

\* lines 38-39: the condition holds and the inner step raises
AggLoopRaises ==
    /\ agg_pc = "loop"
    /\ agg_last_obs # NoObs
    /\ LoopContinues(cur.obs, agg_last_obs, cur.done)
    /\ ~sim_scripted
    /\ agg_pc' = "idle"
    /\ agg_action' = NoAction
    /\ cur' = NoCur
    /\ acall' = [acall EXCEPT !.outcome = "InnerError",
                              !.inner_steps = @ + 1]
    /\ UNCHANGED <<agg_last_obs, agg_obs, agg_reward, sim_scripted, sim_K,
                   sim_t, agg_reset_seen>>

\* lines 43-51: the condition fails; average the window, clear it, return
AggStepEnd ==
    /\ agg_pc = "loop"
    /\ agg_last_obs # NoObs
    /\ ~LoopContinues(cur.obs, agg_last_obs, cur.done)
    /\ agg_last_obs' = cur.obs
    /\ agg_obs' = <<>>
    /\ agg_reward' = <<>>
    /\ agg_pc' = "idle"
    /\ agg_action' = NoAction
    /\ cur' = NoCur
    /\ acall' = [acall EXCEPT !.outcome = "return",
                              !.obs = MeanObs(agg_obs),
                              !.reward = MeanReward(agg_reward),
                              !.done = cur.done,
                              !.info = cur.info]
    /\ UNCHANGED <<sim_scripted, sim_K, sim_t, agg_reset_seen>>

\* reset(): the inner reset returns ob
AggReset(ob) ==
    /\ agg_pc = "idle"
    /\ agg_last_obs' = ob
    /\ sim_t' = 0
    /\ agg_reset_seen' = TRUE
    /\ acall' = [op |-> "reset", outcome |-> "return", inner_steps |-> 0,
                 inner_actions |-> {}, samples |-> <<ob>>, rewards |-> <<>>,
                 obs |-> NoMean, reward |-> NoMeanReward, done |-> FALSE,
                 reset_before |-> agg_reset_seen, stale |-> Len(agg_obs),
                 dones |-> <<>>, info |-> 0, baseline |-> NoObs]
    /\ UNCHANGED <<agg_obs, agg_reward, agg_pc, agg_action, cur, sim_scripted,
                   sim_K>>


\* --------------------------------------- EnergyPlusDiscreteActionWrapper
RECURSIVE Power(_, _)
Power(b, e) == IF e = 0 THEN 1 ELSE b * Power(b, e - 1)

\* spaces.Discrete(num_levels ** dims).contains(action)
DiscreteContains(x, L, D) == x >= 0 /\ x < Power(L, D)

\* np.linspace(-1., 1., L)[i], i from 0, in units of 1/(L-1) (of 1 for L = 1)
ActionTable(i, L) == IF L = 1 THEN -1 ELSE 2 * i - (L - 1)

NextIndex_nodiv(x, remainder, L) == x - remainder

\* action = (action - remainder) // self.num_levels
NextIndex(x, remainder, L) == (x - remainder) \div L

RECURSIVE LevelsOf(_, _, _)
\* binary_action: the loop of D iterations over the remaining index x
LevelsOf(x, L, D) ==
    IF D = 0 THEN <<>>
    ELSE LET remainder == x % L
         IN <<remainder>> \o LevelsOf(NextIndex(x, remainder, L), L, D - 1)

\* self.action_table[binary_action]
QuantizedAction(levels, L) == [i \in DOMAIN levels |-> ActionTable(levels[i], L)]

\* reverse_action returns None
NoneIndex == -1

\* reverse_action(action): the body is pass
ReverseAction(v) == NoneIndex

NoQCall == [index |-> -1, outcome |-> "none", levels |-> <<>>, out |-> <<>>,
            rev |-> NoneIndex]

QuantInit ==
    /\ num_levels \in 1..MaxLevels
    /\ q_dims \in 1..MaxDims
    /\ qcall = NoQCall
    /\ qprev = NoQCall

\* action(index) with an index outside the discrete space: the assert fails
QuantActionRejected(x) ==
    /\ ~DiscreteContains(x, num_levels, q_dims)
    /\ qcall' = [index |-> x, outcome |-> "AssertionError", levels |-> <<>>,
                 out |-> <<>>, rev |-> NoneIndex]
    /\ qprev' = qcall
    /\ UNCHANGED <<num_levels, q_dims>>

\* action(index), followed by reverse_action on the vector it returned
QuantAction(x) ==
    /\ DiscreteContains(x, num_levels, q_dims)
    /\ LET levels == LevelsOf(x, num_levels, q_dims)
       IN qcall' = [index |-> x, outcome |-> "return", levels |-> levels,
                    out |-> QuantizedAction(levels, num_levels),
                    rev |-> ReverseAction(QuantizedAction(levels, num_levels))]
    /\ qprev' = qcall
    /\ UNCHANGED <<num_levels, q_dims>>

\* the indices a caller tries: the space and one value on either side
QuantInputs == -1..Power(num_levels, q_dims)

\* the Quantizer left as constructed
QuantAside ==
    /\ num_levels = 1
    /\ q_dims = 1
    /\ qcall = NoQCall
    /\ qprev = NoQCall


\* --------------------------------------------------- EnergyPlusObsWrapper
\* Values are exact rationals [n, d] in lowest terms with d > 0; floating-point
\* rounding is not modelled.
Abs(x) == IF x < 0 THEN -x ELSE x

RECURSIVE GCD(_, _)
GCD(a, b) == IF b = 0 THEN a ELSE GCD(b, a % b)

Rat(k) == [n |-> k, d |-> 1]

\* q * m for an integer m > 0
Mul(q, m) == LET g == GCD(m, q.d) IN [n |-> q.n * (m \div g), d |-> q.d \div g]

\* q / m for an integer m > 0
Div(q, m) == LET g == GCD(m, Abs(q.n)) IN [n |-> q.n \div g, d |-> q.d * (m \div g)]

\* q1 + q2
Add(q1, q2) ==
    LET n == q1.n * q2.d + q2.n * q1.d
        d == q1.d * q2.d
        g == GCD(d, Abs(n))
    IN [n |-> n \div g, d |-> d \div g]

\* self.obs_max = np.array([50., 50., 50., 1e5, 1e5])
ObsMax == <<50, 50, 50, 100000, 100000>>

\* self.obs_max_tensor = convert_numpy_to_tensor(self.obs_max).unsqueeze(dim=0)
ObsMaxTensor == <<ObsMax>>

\* observation(observation): obs[0:3] and obs[4:], divided by obs_max
Observation(ob) ==
    LET obs == SubSeq(ob, 1, 3) \o SubSeq(ob, 5, Len(ob))
    IN [i \in 1..Len(ObsMax) |-> Div(obs[i], ObsMax[i])]

TotalPower_first(obs) == obs[4]

\* total_power = obs[3] + obs[4]
TotalPower(obs) == Add(obs[4], obs[5])

InsertIndex_four == 3 + 1

\* np.insert(obs, 3, total_power): the (0-based) index of the inserted field
InsertIndex == 3

\* np.insert(obs, k, v)
NpInsert(obs, k, v) == SubSeq(obs, 1, k) \o <<v>> \o SubSeq(obs, k + 1, Len(obs))

\* reverse_observation(normalized_obs)
ReverseObservation(x) ==
    LET obs == [i \in 1..Len(ObsMax) |-> Mul(x[i], ObsMax[i])]
    IN NpInsert(obs, InsertIndex, TotalPower(obs))

BatchTotalPower_doubled(obs) == [r \in DOMAIN obs |-> <<Add(obs[r][4], obs[r][4])>>]

\* total_power = obs[:, 3:4] + obs[:, 4:5]
BatchTotalPower(obs) == [r \in DOMAIN obs |-> <<Add(obs[r][4], obs[r][5])>>]

\* reverse_observation_batch_tensor(normalized_obs)
ReverseObservationBatchTensor(X) ==
    LET obs == [r \in DOMAIN X |->
                   [i \in 1..Len(ObsMaxTensor[1]) |-> Mul(X[r][i], ObsMaxTensor[1][i])]]
        total_power == BatchTotalPower(obs)
    IN [r \in DOMAIN X |->
           SubSeq(obs[r], 1, 3) \o total_power[r] \o SubSeq(obs[r], 4, Len(obs[r]))]

\* raw observations: three temperatures, total power, two component powers
TempValues == {-20, 50}
PowerValues == { 50000 * k : k \in 0..MaxPowerUnits }
RawObservations ==
    { <<Rat(t1), Rat(t2), Rat(t3), Rat(p), Rat(p1), Rat(p2)>> :
        t1 \in TempValues, t2 \in {50}, t3 \in TempValues,
        p \in PowerValues, p1 \in PowerValues, p2 \in PowerValues }

\* a normalized row no observation produces (a model's prediction)
PredictedRow == <<[n |-> 1, d |-> 2], [n |-> -1, d |-> 3], Rat(0),
                  [n |-> 3, d |-> 4], [n |-> 1, d |-> 8]>>

\* the batches of two rows cost_fn is called with, and the action batches
Batches == { <<Observation(o_raw), PredictedRow>>, <<PredictedRow, Observation(o_raw)>> }
ActionBatches == { <<<<-1, 1>>, <<0, 0>>>>, <<<<1, 1>>, <<1, 0>>>> }

NoCost == [called |-> FALSE, states |-> <<>>, actions |-> <<>>,
           next_states |-> <<>>, env_states |-> <<>>, env_actions |-> <<>>,
           env_next_states |-> <<>>]

ObsInit ==
    /\ o_raw \in RawObservations
    /\ o_stage = "raw"
    /\ o_norm = <<>>
    /\ o_back = <<>>
    /\ o_again = <<>>
    /\ cost_call = NoCost

\* observation(raw)
ObsObserve ==
    /\ o_stage = "raw"
    /\ o_norm' = Observation(o_raw)
    /\ o_stage' = "normalized"
    /\ UNCHANGED <<o_raw, o_back, o_again, cost_call>>

\* reverse_observation(observation(raw))
ObsReverse ==
    /\ o_stage = "normalized"
    /\ o_back' = ReverseObservation(o_norm)
    /\ o_stage' = "reversed"
    /\ UNCHANGED <<o_raw, o_norm, o_again, cost_call>>

\* observation(reverse_observation(observation(raw)))
ObsObserveAgain ==
    /\ o_stage = "reversed"
    /\ o_again' = Observation(o_back)
    /\ o_stage' = "renormalized"
    /\ UNCHANGED <<o_raw, o_norm, o_back, cost_call>>

\* cost_fn(states, actions, next_states)
ObsCostFn(X, A, Y) ==
    /\ cost_call' = [called |-> TRUE, states |-> X, actions |-> A,
                     next_states |-> Y,
                     env_states |-> ReverseObservationBatchTensor(X),
                     env_actions |-> A,
                     env_next_states |-> ReverseObservationBatchTensor(Y)]
    /\ UNCHANGED <<o_raw, o_stage, o_norm, o_back, o_again>>

\* the Normalizer left as constructed
ObsAside ==
    /\ o_raw = <<>>
    /\ o_stage = "raw"
    /\ o_norm = <<>>
    /\ o_back = <<>>
    /\ o_again = <<>>
    /\ cost_call = NoCost


\* -------------------------- EnergyPlusWrapper over RepeatAction over the simulation
\* what the simulation returns to the Aggregator; the reward, which neither
\* layer's control flow reads, is left at 0
StackReturns == { o \in SimReturns : o.reward = 0 }

\* the stack as constructed
StackAside ==
    /\ sim_done = FALSE
    /\ stepped_after_done = FALSE
    /\ synthetic = "no"

\* the Segmenter's step(action) up to the first inner step of the
\* Aggregator's step, made by a caller that has reset first and after every
\* step that returned done
StackStepBegin(a, o) ==
    /\ reset_seen /\ prev_done = "none"
    /\ ActionSpaceContains(a)
    /\ AggStepBegin(InnerAction(a), o)
    /\ stepped_after_done' = (stepped_after_done \/ sim_done)
    /\ sim_done' = o.done
    /\ synthetic' = IF synthetic = "reset" THEN "stepped" ELSE synthetic
    /\ UNCHANGED segVars

\* a further inner step of the Aggregator's loop
StackLoopIter(o) ==
    /\ AggLoopIter(o)
    /\ stepped_after_done' = (stepped_after_done \/ sim_done)
    /\ sim_done' = o.done
    /\ UNCHANGED <<segVars, synthetic>>

\* the Aggregator returns its averaged transition and the Segmenter's step
\* finishes with it
StackStepEnd ==
    /\ AggStepEnd
    /\ LET r == SegOnInnerReturn(current_steps, true_done, max_steps,
                                 [obs |-> MeanObs(agg_obs), done |-> cur.done])
       IN /\ last_obs' = r.last_obs
          /\ true_done' = r.true_done
          /\ current_steps' = r.current_steps
          /\ prev_done' = DoneKind(r)
    /\ UNCHANGED <<max_steps, inner_never_done, inner_obs, reset_seen,
                   calls_since_reset, last_step_obs, term_pending, call>>
    /\ UNCHANGED stackVars

\* the Segmenter's reset(), which resets the Aggregator (and through it the
\* simulation) only when true_done is set
StackReset ==
    /\ agg_pc = "idle"
    /\ \/ /\ ResetCallsInner(true_done)
          /\ \E ob \in SimResets : AggReset(ob) /\ last_obs' = ob
          /\ true_done' = FALSE
          /\ sim_done' = FALSE
          /\ synthetic' = "no"
          /\ UNCHANGED stepped_after_done
       \/ /\ ~ResetCallsInner(true_done)
          /\ synthetic' = IF synthetic = "no" THEN "reset" ELSE synthetic
          /\ UNCHANGED <<last_obs, true_done, aggVars, sim_done, stepped_after_done>>
    /\ current_steps' = 0
    /\ reset_seen' = TRUE
    /\ prev_done' = "none"
    /\ UNCHANGED <<max_steps, inner_never_done, inner_obs, calls_since_reset,
                   last_step_obs, term_pending, call>>


\* ------------------------------- EnergyPlusWrapper under a disciplined caller
CallerAside ==
    /\ nonterm_steps = 0
    /\ inner_fresh = FALSE

\* the caller has called reset() first and after every step that returned done
Disciplined == reset_seen /\ prev_done = "none"

CallerStepOutOfBound(a) ==
    /\ Disciplined
    /\ SegStepOutOfBound(a)
    /\ UNCHANGED callerVars

CallerStepInnerRaises(a) ==
    /\ Disciplined
    /\ SegStepInnerRaises(a)
    /\ UNCHANGED callerVars

CallerStep(a, o) ==
    /\ Disciplined
    /\ SegStep(a, o)
    /\ nonterm_steps' = IF o.done THEN nonterm_steps ELSE nonterm_steps + 1
    /\ inner_fresh' = IF o.done THEN FALSE ELSE inner_fresh

CallerReset ==
    /\ SegReset
    /\ nonterm_steps' = 0
    /\ inner_fresh' = IF call'.inner_resets = 1 THEN TRUE ELSE inner_fresh

\* --------------------------------------------------------- specifications
\* the Segmenter left as constructed, while another component is examined
SegAside ==
    /\ SegInit
    /\ max_steps = 1
    /\ inner_never_done = FALSE

\* the Aggregator left as constructed
AggAside ==
    /\ AggIdle
    /\ sim_scripted = FALSE
    /\ sim_K = 1

\* the Segmenter over an inner simulation that may return anything
Init == SegInit /\ AggAside /\ QuantAside /\ ObsAside /\ StackAside /\ CallerAside

Next ==
    \/ \E a \in Actions : SegStepOutOfBound(a)
            /\ UNCHANGED <<aggVars, quantVars, obsVars, stackVars, callerVars>>
    \/ \E a \in Actions : SegStepInnerRaises(a)
            /\ UNCHANGED <<aggVars, quantVars, obsVars, stackVars, callerVars>>
    \/ \E a \in Actions, o \in InnerReturns : SegStep(a, o)
            /\ UNCHANGED <<aggVars, quantVars, obsVars, stackVars, callerVars>>
    \/ SegReset /\ UNCHANGED <<aggVars, quantVars, obsVars, stackVars, callerVars>>

Spec == Init /\ [][Next]_vars

\* the Aggregator over a scripted or a free inner simulation
InitAgg == AggInit /\ SegAside /\ QuantAside /\ ObsAside /\ StackAside /\ CallerAside

NextAgg ==
    \/ \E a \in AggActions, o \in SimReturns :
            AggStepBegin(a, o) /\ UNCHANGED <<segVars, quantVars, obsVars, stackVars, callerVars>>
    \/ \E a \in AggActions : AggStepBeginRaises(a)
            /\ UNCHANGED <<segVars, quantVars, obsVars, stackVars, callerVars>>
    \/ AggLoopTypeError
            /\ UNCHANGED <<segVars, quantVars, obsVars, stackVars, callerVars>>
    \/ \E o \in SimReturns : AggLoopIter(o)
            /\ UNCHANGED <<segVars, quantVars, obsVars, stackVars, callerVars>>
    \/ AggLoopRaises /\ UNCHANGED <<segVars, quantVars, obsVars, stackVars, callerVars>>
    \/ AggStepEnd /\ UNCHANGED <<segVars, quantVars, obsVars, stackVars, callerVars>>
    \/ \E ob \in SimResets : AggReset(ob)
            /\ UNCHANGED <<segVars, quantVars, obsVars, stackVars, callerVars>>

SpecAgg == InitAgg /\ [][NextAgg]_vars

\* the Aggregator over a simulation that eventually changes the leading
\* fields or reports done, and whose steps return; a step call in progress
\* keeps running (the loop is sequential code), the caller may stop calling
NextAggLive ==
    \/ \E a \in AggActions, o \in PatientReturns :
            AggStepBegin(a, o) /\ UNCHANGED <<segVars, quantVars, obsVars, stackVars, callerVars>>
    \/ AggLoopTypeError
            /\ UNCHANGED <<segVars, quantVars, obsVars, stackVars, callerVars>>
    \/ \E o \in PatientReturns :
            AggLoopIter(o) /\ UNCHANGED <<segVars, quantVars, obsVars, stackVars, callerVars>>
    \/ AggStepEnd /\ UNCHANGED <<segVars, quantVars, obsVars, stackVars, callerVars>>
    \/ \E ob \in SimResets : AggReset(ob)
            /\ UNCHANGED <<segVars, quantVars, obsVars, stackVars, callerVars>>

AggCallRuns ==
    /\ \/ AggLoopTypeError
       \/ \E o \in PatientReturns : AggLoopIter(o)
       \/ AggStepEnd
    /\ UNCHANGED <<segVars, quantVars, obsVars, stackVars, callerVars>>

SpecAggLive == InitAgg /\ [][NextAggLive]_vars /\ WF_vars(AggCallRuns)

\* the Quantizer applied to indices in and around its discrete space
InitQuant == QuantInit /\ SegAside /\ AggAside /\ ObsAside /\ StackAside /\ CallerAside

NextQuant ==
    \/ \E x \in QuantInputs :
            QuantActionRejected(x) /\ UNCHANGED <<segVars, aggVars, obsVars, stackVars, callerVars>>
    \/ \E x \in QuantInputs : QuantAction(x)
            /\ UNCHANGED <<segVars, aggVars, obsVars, stackVars, callerVars>>

SpecQuant == InitQuant /\ [][NextQuant]_vars

\* the Normalizer applied to raw observations and to batches of rows
InitObs == ObsInit /\ SegAside /\ AggAside /\ QuantAside /\ StackAside /\ CallerAside

NextObs ==
    \/ ObsObserve /\ UNCHANGED <<segVars, aggVars, quantVars, stackVars, callerVars>>
    \/ ObsReverse /\ UNCHANGED <<segVars, aggVars, quantVars, stackVars, callerVars>>
    \/ ObsObserveAgain /\ UNCHANGED <<segVars, aggVars, quantVars, stackVars, callerVars>>
    \/ \E X \in Batches, A \in ActionBatches, Y \in Batches :
            ObsCostFn(X, A, Y) /\ UNCHANGED <<segVars, aggVars, quantVars, stackVars, callerVars>>

SpecObs == InitObs /\ [][NextObs]_vars

\* the Segmenter under a caller that resets first and after every done step
InitCaller == SegInit /\ AggAside /\ QuantAside /\ ObsAside /\ StackAside /\ CallerAside

NextCaller ==
    \/ \E a \in Actions : CallerStepOutOfBound(a)
            /\ UNCHANGED <<aggVars, quantVars, obsVars, stackVars>>
    \/ \E a \in Actions : CallerStepInnerRaises(a)
            /\ UNCHANGED <<aggVars, quantVars, obsVars, stackVars>>
    \/ \E a \in Actions, o \in InnerReturns :
            CallerStep(a, o) /\ UNCHANGED <<aggVars, quantVars, obsVars, stackVars>>
    \/ CallerReset /\ UNCHANGED <<aggVars, quantVars, obsVars, stackVars>>

SpecCaller == InitCaller /\ [][NextCaller]_vars

\* the stack Segmenter -> Aggregator -> simulation under a disciplined caller
InitStack ==
    /\ SegInit /\ ~inner_never_done
    /\ AggInit /\ ~sim_scripted
    /\ StackAside /\ CallerAside /\ QuantAside /\ ObsAside

NextStack ==
    \/ \E a \in AggActions, o \in StackReturns :
            StackStepBegin(a, o) /\ UNCHANGED <<quantVars, obsVars, callerVars>>
    \/ \E o \in StackReturns : StackLoopIter(o)
            /\ UNCHANGED <<quantVars, obsVars, callerVars>>
    \/ StackStepEnd /\ UNCHANGED <<quantVars, obsVars, callerVars>>
    \/ StackReset /\ UNCHANGED <<quantVars, obsVars, callerVars>>

SpecStack == InitStack /\ [][NextStack]_vars

\* ------------------------------------------------------ claims, Segmenter
\* C1: with an inner simulation that never reports done, the k-th in-bound
\* step call after a reset returns done=false for k < max_steps and done=true
\* with info.true_done=false for k = max_steps, and true_done stays false
\* once reset has been called.
C1_SegmentBoundary ==
    /\ (inner_never_done /\ reset_seen /\ call.op = "step"
            /\ call.outcome # "AssertionError") =>
          /\ calls_since_reset < max_steps =>
                call.outcome = "return" /\ ~call.done /\ ~call.info_true_done
          /\ calls_since_reset = max_steps =>
                call.outcome = "return" /\ call.done /\ ~call.info_true_done
    /\ (inner_never_done /\ reset_seen) => ~true_done

C1_Witness ==
    /\ inner_never_done /\ max_steps >= 2
    /\ call.op = "step" /\ calls_since_reset = max_steps
    /\ call.outcome = "return" /\ call.done /\ ~call.info_true_done

\* C2: a step taken after reset with current_steps < max_steps in which the
\* inner step reports done returns done=true with info.true_done=true and
\* sets true_done; true_done then stays set until the next reset, which calls
\* the inner reset exactly once and clears true_done.
C2_TrueTermination ==
    /\ (call.op = "step" /\ call.inner_done /\ call.pre.reset_seen
            /\ call.pre.current_steps < max_steps) =>
          /\ call.outcome = "return" /\ call.done /\ call.info_true_done
          /\ true_done
    /\ term_pending => true_done
    /\ (call.op = "reset" /\ call.pre.term_pending) =>
          call.inner_resets = 1 /\ ~true_done

C2_Witness ==
    /\ call.op = "reset" /\ call.pre.term_pending
    /\ call.pre.current_steps = max_steps - 1
    /\ call.inner_resets = 1 /\ ~true_done

\* C3 as stated: reset calls the inner reset iff true_done was true; when it
\* was false, reset makes no inner call, leaves last_obs unchanged and returns
\* the observation returned by the most recent step; current_steps becomes 0.
C3_ResetReturnsLastStepObs ==
    call.op = "reset" =>
       /\ call.inner_resets = (IF call.pre.true_done THEN 1 ELSE 0)
       /\ call.inner_steps = 0
       /\ ~call.pre.true_done =>
             last_obs = call.pre.last_obs /\ call.obs = last_step_obs
       /\ current_steps = 0

\* C3 amended: as above, but what a reset without inner reset returns is the
\* stored last_obs, the observation the inner simulation produced last (by
\* its most recent step or its most recent reset, whichever came later).
C3_ResetReturnsStoredObs ==
    call.op = "reset" =>
       /\ call.inner_resets = (IF call.pre.true_done THEN 1 ELSE 0)
       /\ call.inner_steps = 0
       /\ ~call.pre.true_done =>
             /\ last_obs = call.pre.last_obs
             /\ call.obs = call.pre.last_obs
             /\ call.obs = inner_obs
       /\ current_steps = 0

C3_Witness ==
    /\ call.op = "reset" /\ ~call.pre.true_done /\ call.inner_resets = 0
    /\ last_step_obs # None /\ call.obs # last_step_obs

\* C4 as stated: the action the inner step receives is the agent's action
\* mapped from [-1, 1] onto the native range, low + (a + 1)/2 * (high - low).
C4_InnerGetsNativeAction ==
    (call.op = "step" /\ call.inner_steps = 1) =>
        call.inner_action = OriginalAction(call.action)

\* C4 amended: the inner step receives the agent's normalized action
\* unchanged; the Segmenter only checks it against [-1, 1].
C4_InnerGetsSameAction ==
    (call.op = "step" /\ call.inner_steps = 1) =>
        /\ call.inner_action = call.action
        /\ \A i \in 1..Dims : call.action[i] >= -1 /\ call.action[i] <= 1

C4_Witness ==
    /\ call.op = "step" /\ call.inner_steps = 1 /\ call.outcome = "return"
    /\ call.inner_action = call.action
    /\ call.inner_action # OriginalAction(call.action)

\* C5: a step called after a step that returned done=true (synthetic or
\* true), with no reset in between, fails instead of returning a transition
\* (stated for callers that did call reset first).
C5_StepAfterDoneFails ==
    (call.op = "step" /\ call.pre.reset_seen /\ call.pre.prev_done # "none") =>
        call.outcome # "return"

\* C6: a step whose action has a component outside [-1, 1] fails without
\* calling the inner step and leaves current_steps, true_done and last_obs
\* unchanged.
C6_OutOfBoundRejected ==
    (call.op = "step"
        /\ \E i \in 1..Dims : call.action[i] < -1 \/ call.action[i] > 1) =>
       /\ call.outcome = "AssertionError"
       /\ call.inner_steps = 0 /\ call.inner_action = NoAction
       /\ current_steps = call.pre.current_steps
       /\ true_done = call.pre.true_done
       /\ last_obs = call.pre.last_obs

C6_Witness ==
    /\ call.op = "step" /\ call.outcome = "AssertionError"
    /\ call.action[1] = 0 /\ call.action[2] < -1
    /\ call.pre.reset_seen /\ call.pre.current_steps = 1

\* C7: a step called before any reset fails; no such call returns a
\* transition (checked here on the Segmenter).
C7_StepBeforeResetFails ==
    (call.op = "step" /\ ~call.pre.reset_seen) => call.outcome # "return"

\* ----------------------------------------------------- claims, Aggregator
\* two means, each kept as sums and count, are equal
MeanEq(m1, m2) ==
    /\ m1.n > 0 /\ m2.n > 0
    /\ DOMAIN m1.sum = DOMAIN m2.sum
    /\ \A i \in DOMAIN m1.sum : m1.sum[i] * m2.n = m2.sum[i] * m1.n

MeanRewardEq(m1, m2) ==
    /\ m1.n > 0 /\ m2.n > 0
    /\ m1.sum * m2.n = m2.sum * m1.n

\* C8: over the scripted simulation of period K, every step call made after
\* a reset issues exactly K inner steps, all with the action it was given, and
\* returns the mean of the K observations and K rewards of those inner steps.
C8_ScriptedStepMean ==
    (sim_scripted /\ acall.op = "step" /\ acall.reset_before
        /\ acall.outcome # "running") =>
       /\ acall.outcome = "return"
       /\ acall.inner_steps = sim_K
       /\ Cardinality(acall.inner_actions) = 1
       /\ MeanEq(acall.obs, MeanObs(acall.samples))
       /\ MeanRewardEq(acall.reward, MeanReward(acall.rewards))

\* The same, for a step that found the window empty: the count and the mean
\* are those of the K sub-steps of the call.
ScriptedStepMeanFromEmptyWindow ==
    (sim_scripted /\ acall.op = "step" /\ acall.reset_before
        /\ acall.outcome # "running" /\ acall.stale = 0) =>
       /\ acall.outcome = "return"
       /\ acall.inner_steps = sim_K
       /\ Len(acall.samples) = sim_K
       /\ Cardinality(acall.inner_actions) = 1
       /\ MeanEq(acall.obs, MeanObs(acall.samples))
       /\ MeanRewardEq(acall.reward, MeanReward(acall.rewards))

\* A step of the Aggregator called before any reset never returns.
AggStepBeforeResetFails ==
    (acall.op = "step" /\ ~acall.reset_before) => acall.outcome # "return"

\* C9: when reset returns, the window is empty and the baseline is the
\* observation the inner reset just returned, after any history.
C9_ResetClearsWindow ==
    acall.op = "reset" =>
       /\ agg_obs = <<>> /\ agg_reward = <<>>
       /\ agg_last_obs = acall.samples[1]

\* What reset does establish: the baseline, with the window left as it was.
ResetSetsBaselineOnly ==
    acall.op = "reset" =>
       /\ agg_last_obs = acall.samples[1]
       /\ Len(agg_obs) = acall.stale /\ Len(agg_reward) = acall.stale

\* ------------------------------------------------------ claims, Quantizer
RECURSIVE Compose(_, _)
\* sum_i levels[i] * L^(i-1)
Compose(levels, L) ==
    IF levels = <<>> THEN 0 ELSE levels[1] + L * Compose(Tail(levels), L)

\* C10: action(index) accepts exactly the indices of [0, L^D); an accepted
\* index decomposes, least-significant dimension first, into D levels of
\* 0..L-1 whose mixed-radix value is the index; the output has length D with
\* component i the table entry of level i; two different accepted indices
\* give different level tuples and different output vectors.
C10_QuantizerInjective ==
    /\ qcall.outcome # "none" =>
          (qcall.outcome = "return"
              <=> (0 <= qcall.index /\ qcall.index < Power(num_levels, q_dims)))
    /\ qcall.outcome = "return" =>
          /\ Len(qcall.levels) = q_dims
          /\ \A i \in 1..q_dims : qcall.levels[i] \in 0..(num_levels - 1)
          /\ Compose(qcall.levels, num_levels) = qcall.index
          /\ Len(qcall.out) = q_dims
          /\ \A i \in 1..q_dims :
                qcall.out[i] = ActionTable(qcall.levels[i], num_levels)
    /\ (qcall.outcome = "return" /\ qprev.outcome = "return"
            /\ qcall.index # qprev.index) =>
          qcall.levels # qprev.levels /\ qcall.out # qprev.out

C10_Witness ==
    /\ num_levels = 3 /\ q_dims = 2
    /\ qcall.outcome = "return" /\ qprev.outcome = "return"
    /\ qcall.index = 7 /\ qprev.index = 5
    /\ qcall.levels = <<1, 2>> /\ qprev.levels = <<2, 1>>
    /\ qcall.out = <<0, 2>>

\* C11: reverse_action(action(index)) returns index for every index of the
\* discrete space.
C11_ReverseActionRoundTrip ==
    qcall.outcome = "return" => qcall.rev = qcall.index

\* ----------------------------------------------------- claims, Normalizer
\* C12: observation(reverse_observation(x)) = x for every x produced by
\* observation: all five retained fields are restored.
C12_NormalizedRoundTrip ==
    o_stage = "renormalized" =>
        /\ Len(o_again) = 5 /\ Len(o_norm) = 5
        /\ \A i \in 1..5 : o_again[i] = o_norm[i]

C12_Witness ==
    /\ o_stage = "renormalized"
    /\ o_raw[4] # Add(o_raw[5], o_raw[6])
    /\ o_raw[5] # o_raw[6] /\ o_raw[5].n > 0 /\ o_raw[6].n > 0
    /\ o_raw[1].n < 0
    /\ o_again = o_norm

\* C13 as stated: reverse_observation(observation(raw)) equals raw in every
\* field, the dropped field at index 3 included.
C13_RawRoundTripAllFields ==
    o_stage \in {"reversed", "renormalized"} =>
        /\ Len(o_back) = 6
        /\ \A i \in 1..6 : o_back[i] = o_raw[i]

\* C13 amended: reverse_observation(observation(raw)) has six fields, equals
\* raw in fields 0, 1, 2, 4 and 5, and holds raw[4] + raw[5] at index 3; so it
\* equals raw exactly when raw[3] = raw[4] + raw[5].
C13_RawRoundTripRetainedFields ==
    o_stage \in {"reversed", "renormalized"} =>
        /\ Len(o_back) = 6
        /\ \A i \in {1, 2, 3, 5, 6} : o_back[i] = o_raw[i]
        /\ o_back[4] = Add(o_raw[5], o_raw[6])
        /\ (o_back = o_raw) <=> (o_raw[4] = Add(o_raw[5], o_raw[6]))

C13_Witness ==
    /\ o_stage = "reversed"
    /\ o_raw[4] # Add(o_raw[5], o_raw[6])
    /\ o_raw[5].n > 0 /\ o_raw[6].n > o_raw[5].n
    /\ o_back[4] # o_raw[4]

\* C14: the batch inverse gives, for every row, the vector the single-sample
\* inverse gives for that row; cost_fn passes the batch inverse of states and
\* of next_states, and the actions unchanged, to the inner cost function.
C14_BatchInverseRowwise ==
    cost_call.called =>
        /\ DOMAIN cost_call.env_states = DOMAIN cost_call.states
        /\ DOMAIN cost_call.env_next_states = DOMAIN cost_call.next_states
        /\ \A r \in DOMAIN cost_call.states :
              /\ Len(cost_call.env_states[r]) = 6
              /\ cost_call.env_states[r] = ReverseObservation(cost_call.states[r])
        /\ \A r \in DOMAIN cost_call.next_states :
              cost_call.env_next_states[r]
                  = ReverseObservation(cost_call.next_states[r])
        /\ cost_call.env_actions = cost_call.actions

C14_Witness ==
    /\ cost_call.called
    /\ cost_call.states[1] # cost_call.states[2]
    /\ cost_call.states[2] = PredictedRow
    /\ cost_call.next_states # cost_call.states
    /\ cost_call.env_states[2][4] = Rat(87500)
    /\ cost_call.env_states[1][5].n > 0 /\ cost_call.env_states[1][6].n > 0

\* ------------------------------------------------- claims, Segmenter again
\* C15: over any sequence of reset and step calls, every inner step executed
\* has its observation returned by a Segmenter step call: a step call in which
\* the inner step ran and returned itself returns a transition.
C15_NoStepLost ==
    (call.op = "step" /\ call.inner_steps = 1 /\ call.outcome # "InnerError")
        => call.outcome = "return"

\* ------------------------------------------------ claims, Aggregator again
\* C16: every observation averaged into the result of one outer step has the
\* same first three fields, unless the window was cut short by termination.
C16_WindowOnePrefix ==
    (acall.op = "step" /\ acall.outcome = "return" /\ ~acall.done) =>
        \A i, j \in DOMAIN acall.samples :
            SamePrefix(acall.samples[i], acall.samples[j])

\* C17: when the first inner sub-step of a step reports done, the step makes
\* one inner call and returns that sample as observation and reward; the
\* returned done and info are always those of the last inner sub-step.
C17_FirstSubStepDone ==
    (acall.op = "step" /\ acall.outcome = "return") =>
        /\ acall.done = acall.dones[Len(acall.dones)]
        /\ acall.info = acall.inner_steps
        /\ acall.dones[1] =>
              /\ acall.inner_steps = 1
              /\ MeanEq(acall.obs, MeanObs(<<acall.samples[1]>>))
              /\ MeanRewardEq(acall.reward, MeanReward(<<acall.rewards[1]>>))

\* C17 holds of every step that starts from an empty window
FirstSubStepDoneFromEmptyWindow ==
    (acall.op = "step" /\ acall.outcome = "return" /\ acall.stale = 0) =>
        /\ acall.done = acall.dones[Len(acall.dones)]
        /\ acall.info = acall.inner_steps
        /\ acall.dones[1] =>
              /\ acall.inner_steps = 1
              /\ acall.obs = MeanObs(<<acall.samples[1]>>)
              /\ acall.reward = MeanReward(<<acall.rewards[1]>>)

\* C18: a step call in progress eventually returns or fails, given that the
\* simulation eventually changes one of the first three fields relative to the
\* baseline or reports done; and no inner step is issued once either holds:
\* every sub-step followed by another one had the baseline's first three
\* fields and did not report done.
C18_LoopExits ==
    /\ [](acall.op = "step" =>
            \A i \in 1..(Len(acall.samples) - 1) :
                /\ acall.baseline # NoObs
                /\ SubSeq(acall.samples[i], 1, 3) = SubSeq(acall.baseline, 1, 3)
                /\ ~acall.dones[i])
    /\ (agg_pc = "loop" ~> agg_pc = "idle")

C18_Witness ==
    /\ acall.op = "step" /\ acall.outcome = "return" /\ agg_pc = "idle"
    /\ acall.inner_steps = 2 /\ ~acall.done
    /\ acall.samples[2][3] # acall.baseline[3]
    /\ acall.samples[2][1] = acall.baseline[1]

\* ------------------------------------------------------- claims, the stack
\* C19: under a caller that resets first and after every done step, the
\* simulation is never stepped after it reported done without an inner reset
\* in between, and the Aggregator's baseline is defined whenever it is
\* stepped, also after Segmenter resets that did not reset the inner layers.
C19_StackPrecondition ==
    /\ ~stepped_after_done
    /\ agg_pc = "loop" => (agg_last_obs # NoObs /\ acall.baseline # NoObs)
    /\ acall.op = "step" => acall.baseline # NoObs
    /\ agg_pc = "loop" /\ Len(acall.dones) > 1 =>
          \A i \in 1..(Len(acall.dones) - 1) : ~acall.dones[i]

C19_Witness ==
    /\ synthetic = "stepped"
    /\ acall.op = "step" /\ acall.outcome = "return" /\ agg_pc = "idle"
    /\ acall.inner_steps = 2
    /\ ~true_done /\ current_steps = 1 /\ max_steps = 2

\* ------------------------------------------- claims, the disciplined caller
\* C20: under a caller that resets first and after every done step, the
\* counter, which exists from the first reset on, stays within 0..max_steps
\* and equals the number of non-terminating inner steps since the last
\* Segmenter reset; a step returns done=true with info.true_done=false exactly
\* when current_steps has just become max_steps; and true_done is true exactly
\* when the inner simulation was not reset since construction or since it
\* last reported done.
C20_CounterInvariant ==
    /\ reset_seen => (0 <= current_steps /\ current_steps <= max_steps)
    /\ reset_seen => current_steps = nonterm_steps
    /\ (call.op = "step" /\ call.outcome = "return") =>
          ((call.done /\ ~call.info_true_done)
              <=> (current_steps = max_steps
                   /\ call.pre.current_steps = max_steps - 1))
    /\ call.op = "step" => call.outcome \notin {"ValueError", "AttributeError"}
    /\ true_done <=> ~inner_fresh

C20_Witness ==
    /\ call.op = "step" /\ call.outcome = "return"
    /\ call.done /\ ~call.info_true_done
    /\ max_steps = 2 /\ current_steps = 2 /\ nonterm_steps = 2
    /\ inner_fresh /\ ~true_done
    /\ call.pre.current_steps = 1 /\ ~call.inner_done

====
